---------------------------- MODULE Spec2Model ----------------------------
(***************************************************************************)
(* Model of the monitoring and relay engine of architect-bridge/main.py:   *)
(* the session registry (monitoring_tasks, client_credentials,             *)
(* last_balances), the per-client monitor task monitor_client_realtime,    *)
(* the start / stop / start-all / startup-recovery handlers, and the       *)
(* outbound relay connection (ensure_java_websocket_connection and         *)
(* connect_to_java_websocket), and the close_all_positions handler. The    *)
(* last section models the client push channel, whose endpoint is not in   *)
(* main.py, from the specification.                                        *)
(*                                                                         *)
(* Everything runs on one asyncio event loop, so a coroutine runs          *)
(* atomically from one await to the next. Every action below is one such   *)
(* stretch of code; the suspension points are the pc values.               *)
(***************************************************************************)
EXTENDS Integers, Sequences, FiniteSets, Bags, TLC

----------------------------------------------------------------------------
(* Bounds of the model *)

\* cancelled monitor tasks that have not yet taken their last step
MaxZombies == 1
\* start_monitoring / recovery calls that can be suspended at the same time
MaxHandlers == 2
\* connect tasks that can exist at the same time
MaxConnTasks == 2
\* polls and fill events of one push session
MaxPolls == 3

(* Program constants *)

max_retries == 5
retry_delay_init == 2
AlertThreshold == 1000
KeyLen == 24
MinSecretLen == 20

(* Inputs *)

Clients == {"c1"}
\* api_key / api_secret lengths offered to start_monitoring (0: empty header)
KeyLens == {0, 23, 24, 25}
SecretLens == {0, 19, 20}
\* credentials the User Service hands to start_all_monitoring and recovery
\* (0: the field is missing, credentials.get(...) is None)
UserServiceCreds == {[api_key |-> 24, api_secret |-> 20],
                     [api_key |-> 0, api_secret |-> 0]}
\* net_liquidation_value of an account summary message
Balances == {0, 1000, 2500}

ConnIds == 1..MaxConnTasks
NoTask == 0

\* push channel, amounts in cents: totalBalance of a snapshot ($100,000.00 and
\* one and two cents more), the symbols and the P&L values of a position map
PushBalances == {10000000, 10000001, 10000002}
PushSymbols == {"BTC", "ETH"}
PnlValues == {500, 600, 650}
AccountIds == {"acct-1"}

----------------------------------------------------------------------------
(* Python dict helpers: a dict is a function whose DOMAIN is its key set *)

EmptyDict == [x \in {} |-> 0]
Put(d, k, v) == [x \in (DOMAIN d) \cup {k} |-> IF x = k THEN v ELSE d[x]]
Del(d, k) == [x \in (DOMAIN d) \ {k} |-> d[x]]
Abs(x) == IF x < 0 THEN -x ELSE x
MinOf(S) == CHOOSE x \in S : \A y \in S : x <= y
RECURSIVE Pow2(_)
Pow2(n) == IF n <= 0 THEN 1 ELSE 2 * Pow2(n - 1)
One(x) == SetToBag({x})

----------------------------------------------------------------------------
VARIABLES
    monitoring_tasks,     \* dict client_id -> Task: [client, pc, cancel, cur]
    client_credentials,   \* dict client_id -> [api_key, api_secret] (lengths)
    last_balances,        \* dict client_id -> balance
    java_websocket,       \* "none" (None) | "open" | "closed" (close_code set)
    java_connection_task, \* NoTask (None) or the id of a connect task
    zombies,              \* bag of the running Tasks monitoring_tasks has dropped
    connTasks,            \* connect tasks: id -> [pc, attempt, retry_delay, delays]
    handlers,             \* bag of the start/recovery calls suspended in ensure
    phase,                \* "startup" (startup_event running) | "serving"
    last,                 \* the step just taken: [op, c, res, after, stopped, prev]
    push                  \* the client push session (section "Client push channel")

vars == <<monitoring_tasks, client_credentials, last_balances, java_websocket,
          java_connection_task, zombies, connTasks, handlers, phase, last,
          push>>

registry == <<monitoring_tasks, client_credentials, last_balances>>
relay == <<java_websocket, java_connection_task, connTasks>>

\* the steps that leave a trace in last (it is history, not program state);
\* all other steps leave the same blank trace
Recorded == {"start", "recover", "start_all", "stop", "mon_cancelled",
             "mon_no_credentials", "alert_dropped", "fill_dropped", "send_failed",
             "message_error", "close_all"}

\* after: the step before it, where a property needs two steps in a row
\* ("stop": a stop follows a stop of the same client; "start": the cleanup of a
\* cancelled task follows a successful start_monitoring of the same client)
\* stopped: the clients whose stop_monitoring has returned with no start
\* called for them since; every step carries it over
\* prev: per client, the balance of the latest account-summary message its
\* monitor has taken from the stream since the client was last stopped
Step(op, c, res) ==
    IF op \in Recorded
    THEN [op |-> op, c |-> c, res |-> res, after |-> "", stopped |-> last.stopped,
          prev |-> last.prev]
    ELSE [op |-> "step", c |-> "", res |-> "", after |-> "", stopped |-> last.stopped,
          prev |-> last.prev]

\* no push session has been established
NoPushSession ==
    [pc |-> "idle", accountId |-> "", out |-> <<>>, lastBalanceSnapshot |-> <<>>,
     lastPositionPnLBySymbol |-> EmptyDict, polls |-> 0,
     seen |-> [monitor |-> "", totalBalance |-> 0, positions |-> EmptyDict,
               emitted |-> 0]]

Init ==
    /\ push = NoPushSession
    /\ monitoring_tasks = EmptyDict
    /\ client_credentials = EmptyDict
    /\ last_balances = EmptyDict
    /\ java_websocket = "none"
    /\ java_connection_task = NoTask
    /\ zombies = EmptyBag
    /\ connTasks = EmptyDict
    /\ handlers = EmptyBag
    /\ phase = "startup"
    /\ last = [op |-> "step", c |-> "", res |-> "", after |-> "", stopped |-> {},
               prev |-> EmptyDict]

----------------------------------------------------------------------------
(* Outbound relay connection *)

\* `java_websocket is not None and not java_websocket.close_code`
JavaConnected == java_websocket = "open"

ConnFinished == {"ok", "failed"}

\* a connection is asked for even while the socket is open
NeedsConnectAlways == TRUE

\* `java_websocket is None or java_websocket.close_code`
NeedsConnect == java_websocket \in {"none", "closed"}

\* a connect cycle is started on every call, even while one is in flight
NeedsNewCycleAlways == TRUE

\* `java_connection_task is None or java_connection_task.done()`
NeedsNewCycle ==
    IF java_connection_task = NoTask
    THEN TRUE
    ELSE connTasks[java_connection_task].pc \in ConnFinished

\* asyncio.create_task(connect_to_java_websocket()): the locals of a new cycle.
\* delays is the history of the sleeps of this cycle (not program state).
NewConnTask == [pc |-> "connecting", attempt |-> 0,
                retry_delay |-> retry_delay_init, delays |-> <<>>]

ConnInFlight == {i \in DOMAIN connTasks : connTasks[i].pc \notin ConnFinished}

FreeConnId == MinOf(ConnIds \ ConnInFlight)

\* ensure_java_websocket_connection() up to its await: the connect tasks and
\* java_connection_task after the call, and the task the caller awaits
\* (NoTask: the call returns without suspending).
EnsureCall ==
    IF ~NeedsConnect
    THEN [ct |-> connTasks, jct |-> java_connection_task, await |-> NoTask]
    ELSE IF NeedsNewCycle
         THEN [ct |-> Put([i \in ConnInFlight |-> connTasks[i]],
                          FreeConnId, NewConnTask),
               jct |-> FreeConnId, await |-> FreeConnId]
         ELSE [ct |-> connTasks, jct |-> java_connection_task,
               await |-> java_connection_task]

\* the model has a connect task id left for the call
EnsureCanRun ==
    IF NeedsConnect /\ NeedsNewCycle THEN ConnIds \ ConnInFlight # {} ELSE TRUE

\* a caller suspended in `await java_connection_task` on task t is woken with
\* the outcome of the task
Woken(h, t, outcome) ==
    IF h.pc = "await_conn" /\ h.await = t
    THEN [h EXCEPT !.pc = outcome, !.await = NoTask]
    ELSE h

WakeAwaiters(t, outcome) ==
    LET Count(x) ==
            LET u == [x EXCEPT !.pc = "await_conn", !.await = t]
            IN (IF x \in DOMAIN handlers /\ Woken(x, t, outcome) = x
                THEN handlers[x] ELSE 0)
               + (IF u \in DOMAIN handlers /\ u # x /\ Woken(u, t, outcome) = x
                  THEN handlers[u] ELSE 0)
    IN [x \in {Woken(h, t, outcome) : h \in DOMAIN handlers} |-> Count(x)]

\* a finished connect task stays only while java_connection_task refers to it
EndConnTask(t, endpc) ==
    IF java_connection_task = t
    THEN [connTasks EXCEPT ![t].pc = endpc]
    ELSE Del(connTasks, t)

\* the delay slept after a failed attempt: the doubling is lost
SleepDelayFlat(ct) == retry_delay_init

\* `await asyncio.sleep(retry_delay)`
SleepDelay(ct) == ct.retry_delay

\* `if attempt < max_retries - 1` gives up one attempt late
MayRetryOneMore(ct) == ct.attempt < max_retries

\* `if attempt < max_retries - 1`
MayRetry(ct) == ct.attempt < max_retries - 1

\* websockets.connect(...) returns: java_websocket is set and the task ends
ConnectSucceeds(t) ==
    /\ t \in DOMAIN connTasks
    /\ connTasks[t].pc = "connecting"
    /\ java_websocket' = "open"
    /\ connTasks' = EndConnTask(t, "ok")
    /\ handlers' = WakeAwaiters(t, "resume_ok")
    /\ last' = Step("connect_ok", "", "")
    /\ UNCHANGED <<registry, java_connection_task, zombies, phase, push>>

\* websockets.connect(...) raises: sleep and retry, or give up and re-raise
ConnectFails(t) ==
    /\ t \in DOMAIN connTasks
    /\ connTasks[t].pc = "connecting"
    /\ IF MayRetry(connTasks[t])
       THEN /\ connTasks' = [connTasks EXCEPT
                   ![t].pc = "sleeping",
                   ![t].delays = Append(@, SleepDelay(connTasks[t]))]
            /\ handlers' = handlers
            /\ last' = Step("connect_retry", "", "")
       ELSE /\ connTasks' = EndConnTask(t, "failed")
            /\ handlers' = WakeAwaiters(t, "resume_fail")
            /\ last' = Step("connect_giveup", "", "")
    /\ UNCHANGED <<registry, java_websocket, java_connection_task, zombies, phase, push>>

\* asyncio.sleep returns: `retry_delay *= 2`, next iteration of the for loop
ConnectWakes(t) ==
    /\ t \in DOMAIN connTasks
    /\ connTasks[t].pc = "sleeping"
    /\ connTasks' = [connTasks EXCEPT
           ![t].pc = "connecting",
           ![t].attempt = @ + 1,
           ![t].retry_delay = @ * 2]
    /\ last' = Step("connect_wake", "", "")
    /\ UNCHANGED <<registry, java_websocket, java_connection_task, zombies,
                   handlers, phase, push>>

\* the downstream endpoint closes the socket or the network drops it:
\* close_code is set
RelayDrops ==
    /\ java_websocket = "open"
    /\ java_websocket' = "closed"
    /\ last' = Step("relay_drop", "", "")
    /\ UNCHANGED <<registry, java_connection_task, connTasks, zombies, handlers, phase, push>>

----------------------------------------------------------------------------
(* Monitor tasks: asyncio.create_task(monitor_client_realtime(client_id)) *)

TaskFinished == {"done", "failed", "cancelled"}

\* task.done()
Done(task) == task.pc \in TaskFinished

\* cur: the local current_balance while the task is suspended in a send
NewTask(c) == [client |-> c, pc |-> "created", cancel |-> FALSE, cur |-> 0]

\* task.cancel() has no effect
CancelIgnored(task) == task

\* task.cancel(): a no-op on a task that is done. On a task suspended in an
\* await it cancels the awaited future at once (pc "interrupted": whatever the
\* task was waiting for is abandoned, CancelledError is its next step); on a
\* task that has not started it only marks the task.
Cancel(task) ==
    IF Done(task) THEN task
    ELSE [task EXCEPT !.cancel = TRUE, !.cur = 0,
                      !.pc = IF @ = "created" THEN @ ELSE "interrupted"]

\* the existing task is replaced without being cancelled
CancelExistingNever(task) == task

\* `if client_id in monitoring_tasks and not monitoring_tasks[client_id].done():
\*      monitoring_tasks[client_id].cancel()`
CancelExisting(task) == IF ~Done(task) THEN Cancel(task) ELSE task

\* a Task that monitoring_tasks no longer refers to lives on while it runs
Orphan(zb, task) == IF Done(task) THEN zb ELSE zb (+) One(task)

\* cancel the existing task if it is running, then
\* `monitoring_tasks[client_id] = asyncio.create_task(monitor_client_realtime(client_id))`
SpawnMonitor(mt, zb, c) ==
    [mt |-> Put(mt, c, NewTask(c)),
     zb |-> IF c \in DOMAIN mt THEN Orphan(zb, CancelExisting(mt[c])) ELSE zb]

\* the model has room for the task that a new task of c replaces
CanSpawn(c) ==
    BagCardinality(SpawnMonitor(monitoring_tasks, zombies, c).zb) <= MaxZombies

\* the tasks of the event loop: the registered ones and the dropped ones
TaskRefs ==
    {[reg |-> TRUE, task |-> monitoring_tasks[c]] : c \in DOMAIN monitoring_tasks}
        \cup {[reg |-> FALSE, task |-> z] : z \in BagToSet(zombies)}

\* the task of r takes a step and becomes new
Move(r, new) ==
    IF r.reg
    THEN /\ monitoring_tasks' = [monitoring_tasks EXCEPT ![r.task.client] = new]
         /\ zombies' = zombies
    ELSE /\ monitoring_tasks' = monitoring_tasks
         /\ zombies' = Orphan(zombies (-) One(r.task), new)

\* the finally block of the task is skipped
FinallyKeeps(cc, c) == cc

\* the finally block drops the credentials of every client
FinallyClearsAll(cc, c) == EmptyDict

\* `finally: if client_id in client_credentials: del client_credentials[client_id]`
Finally(cc, c) == IF c \in DOMAIN cc THEN Del(cc, c) ELSE cc

Running(r) == r \in TaskRefs /\ ~Done(r.task)

\* a cancel request is never delivered
InterruptedNever(r) == FALSE

\* Task.cancel() was called: the next step of the task raises CancelledError
\* at the await it is suspended in
Interrupted(r) == r.task.cancel

\* the task is cancelled before its first step: CancelledError is thrown into
\* a coroutine that has not entered its try block, so no finally runs
MonitorCancelledUnstarted(r) ==
    /\ Running(r) /\ Interrupted(r) /\ r.task.pc = "created"
    /\ Move(r, [r.task EXCEPT !.pc = "cancelled", !.cur = 0])
    /\ last' = Step("mon_cancelled_unstarted", r.task.client, "")
    /\ UNCHANGED <<client_credentials, last_balances, relay, handlers, phase, push>>

\* the task ends: the finally block runs, then the task is done
MonitorEnds(r, endpc, why) ==
    /\ client_credentials' = Finally(client_credentials, r.task.client)
    /\ Move(r, [r.task EXCEPT !.pc = endpc, !.cur = 0])
    /\ last' = [Step(why, r.task.client, "") EXCEPT
                    !.after = IF why = "mon_cancelled"
                                 /\ last = Step("start", r.task.client, "started")
                              THEN "start" ELSE ""]
    /\ UNCHANGED <<last_balances, relay, handlers, phase, push>>

\* CancelledError is raised at the await the task is suspended in; it is not an
\* Exception, so no except clause takes it, and the finally block runs
MonitorCancelled(r) ==
    /\ Running(r) /\ Interrupted(r) /\ r.task.pc # "created"
    /\ MonitorEnds(r, "cancelled", "mon_cancelled")

MonitorGoes(r, pc, why) ==
    /\ Move(r, [r.task EXCEPT !.pc = pc])
    /\ last' = Step(why, r.task.client, "")
    /\ UNCHANGED <<client_credentials, last_balances, relay, handlers, phase, push>>

\* first step: read the credentials, call AsyncClient.connect
MonitorStarts(r) ==
    /\ Running(r) /\ ~Interrupted(r) /\ r.task.pc = "created"
    /\ IF r.task.client \notin DOMAIN client_credentials
       THEN MonitorEnds(r, "failed", "mon_no_credentials")
       ELSE IF client_credentials[r.task.client].api_key = 0
            \* `credentials['api_key'][-4:]` on None raises TypeError
            THEN MonitorEnds(r, "failed", "mon_bad_credentials")
            ELSE MonitorGoes(r, "connecting", "mon_start")

\* AsyncClient.connect returns or raises
MonitorConnects(r, ok) ==
    /\ Running(r) /\ ~Interrupted(r) /\ r.task.pc = "connecting"
    /\ IF ok
       THEN MonitorGoes(r, "listing", "mon_connected")
       ELSE MonitorEnds(r, "failed", "mon_connect_failed")

\* client.list_accounts returns accounts, returns none, or raises
MonitorListsAccounts(r, ok) ==
    /\ Running(r) /\ ~Interrupted(r) /\ r.task.pc = "listing"
    /\ IF ok
       THEN MonitorGoes(r, "streaming", "mon_account")
       ELSE MonitorEnds(r, "failed", "mon_no_account")

\* upstream stream messages: an account summary carrying net_liquidation_value,
\* a summary whose processing raises (malformed), a fill, anything else
Messages ==
    [kind : {"summary"}, nlv : Balances]
        \cup {[kind |-> k, nlv |-> 0] : k \in {"bad_summary", "fill", "other"}}

\* `float(summary.net_liquidation_value) if summary.net_liquidation_value else 0.0`
CurrentBalance(nlv) == IF nlv # 0 THEN nlv ELSE 0

\* `last_balances.get(client_id, current_balance)`
PreviousBalance(lb, c, current) == IF c \in DOMAIN lb THEN lb[c] ELSE current

\* `abs(balance_change) > 1000`
IsAlert(previous, current) == Abs(current - previous) > AlertThreshold

\* an exception inside the message loop escapes to the outer handler
CatchesNothing == FALSE

\* `except Exception as e: ... continue` around the handling of one message
CatchesInMessageLoop == TRUE

\* an exception raised while one message is handled ends the task
MessageRaisesEnds(r, why) == MonitorEnds(r, "failed", why)

\* an exception raised while one message is handled
MessageRaises(r, why) ==
    IF CatchesInMessageLoop
    THEN MonitorGoes(r, "streaming", why)
    ELSE MonitorEnds(r, "failed", why)

\* `last_balances[client_id] = current_balance`, and on to the next message
WriteBack(r, current, why) ==
    /\ last_balances' = Put(last_balances, r.task.client, current)
    /\ Move(r, [r.task EXCEPT !.pc = "streaming", !.cur = 0])
    /\ last' = [Step(why, r.task.client, "") EXCEPT
                    !.prev = Put(@, r.task.client, current)]
    /\ UNCHANGED <<client_credentials, relay, handlers, phase, push>>

\* `async for message in client.stream()` yields a message: the body of the loop
\* up to its next await
MonitorMessage(r, m) ==
    /\ Running(r) /\ ~Interrupted(r) /\ r.task.pc = "streaming"
    /\ LET c == r.task.client
           current == CurrentBalance(m.nlv)
           previous == PreviousBalance(last_balances, c, current)
       IN CASE m.kind = "summary" /\ IsAlert(previous, current) /\ JavaConnected ->
                 /\ Move(r, [r.task EXCEPT !.pc = "send_alert", !.cur = current])
                 /\ last' = [Step("alert_sending", c, "") EXCEPT
                                 !.prev = Put(@, c, current)]
                 /\ UNCHANGED <<client_credentials, last_balances, relay, handlers, phase, push>>
            [] m.kind = "summary" /\ IsAlert(previous, current) /\ ~JavaConnected ->
                 WriteBack(r, current, "alert_dropped")
            [] m.kind = "summary" /\ ~IsAlert(previous, current) ->
                 WriteBack(r, current, "summary_quiet")
            [] m.kind = "bad_summary" -> MessageRaises(r, "message_error")
            [] m.kind = "fill" /\ JavaConnected ->
                 MonitorGoes(r, "send_fill", "fill_sending")
            [] m.kind = "fill" /\ ~JavaConnected ->
                 MonitorGoes(r, "streaming", "fill_dropped")
            [] m.kind = "other" -> MonitorGoes(r, "streaming", "message_ignored")

\* `await java_websocket.send(...)` returns, or raises ConnectionClosed because
\* the socket was closed under the send
MonitorSendReturns(r) ==
    /\ Running(r) /\ ~Interrupted(r) /\ r.task.pc \in {"send_alert", "send_fill"}
    /\ IF ~JavaConnected
       THEN /\ Move(r, [r.task EXCEPT !.pc = IF CatchesInMessageLoop THEN "streaming"
                                                                     ELSE "failed",
                                      !.cur = 0])
            /\ client_credentials' =
                   IF CatchesInMessageLoop THEN client_credentials
                   ELSE Finally(client_credentials, r.task.client)
            /\ last' = Step("send_failed", r.task.client, "")
            /\ UNCHANGED <<last_balances, relay, handlers, phase, push>>
       ELSE IF r.task.pc = "send_alert"
            THEN WriteBack(r, r.task.cur, "alert_sent")
            ELSE MonitorGoes(r, "streaming", "fill_sent")

\* client.stream() raises: the outer `except Exception` re-raises
MonitorStreamFails(r) ==
    /\ Running(r) /\ ~Interrupted(r) /\ r.task.pc = "streaming"
    /\ MonitorEnds(r, "failed", "mon_stream_failed")

\* client.stream() is exhausted: the coroutine returns
MonitorStreamEnds(r) ==
    /\ Running(r) /\ ~Interrupted(r) /\ r.task.pc = "streaming"
    /\ MonitorEnds(r, "done", "mon_stream_ended")

----------------------------------------------------------------------------
(* Session supervisor: the request handlers *)

\* the key is accepted when it is at least 24 long
ValidKeyAtLeast(k) == k >= KeyLen

\* `if not api_key or len(api_key) != 24` -> 400
ValidKey(k) == k # 0 /\ k = KeyLen

\* `if not api_secret or len(api_secret) < 20` -> 400
ValidSecret(s) == s # 0 /\ s >= MinSecretLen

\* the caller suspends in `await java_connection_task`
Suspend(kind, c, t) ==
    handlers (+) One([kind |-> kind, c |-> c, pc |-> "await_conn", await |-> t])

\* lines 143-149: cancel the running task of c and register a new one
Spawn(kind, c, stopped) ==
    /\ CanSpawn(c)
    /\ monitoring_tasks' = SpawnMonitor(monitoring_tasks, zombies, c).mt
    /\ zombies' = SpawnMonitor(monitoring_tasks, zombies, c).zb
    /\ last' = [Step(kind, c, "started") EXCEPT !.stopped = stopped]

\* lines 136-149 (and 1190-1201 of the recovery): store the credentials, call
\* ensure_java_websocket_connection, and either go on to spawn the task or
\* suspend in `await java_connection_task`
StoreEnsureSpawn(kind, c, cred) ==
    /\ EnsureCanRun
    /\ client_credentials' = Put(client_credentials, c, cred)
    /\ last_balances' = last_balances
    /\ java_websocket' = java_websocket
    /\ connTasks' = EnsureCall.ct
    /\ java_connection_task' = EnsureCall.jct
    /\ IF EnsureCall.await = NoTask
       THEN /\ Spawn(kind, c, last.stopped \ {c})
            /\ handlers' = handlers
       ELSE /\ BagCardinality(handlers) < MaxHandlers
            /\ handlers' = Suspend(kind, c, EnsureCall.await)
            /\ last' = [Step(kind, c, "waiting") EXCEPT !.stopped = @ \ {c}]
            /\ UNCHANGED <<monitoring_tasks, zombies>>

\* POST /start-monitoring/{client_id}
StartMonitoring(c, k, s) ==
    /\ phase = "serving"
    /\ IF ~(ValidKey(k) /\ ValidSecret(s))
       THEN /\ last' = Step("start", c, "400")
            /\ UNCHANGED <<registry, relay, zombies, handlers>>
       ELSE StoreEnsureSpawn("start", c, [api_key |-> k, api_secret |-> s])
    /\ UNCHANGED <<phase, push>>

\* `await java_connection_task` returns or raises in a suspended handler.
\* start_monitoring turns the exception into HTTP 500; the recovery logs it.
HandlerResumes(h) ==
    /\ h \in DOMAIN handlers
    /\ h.pc \in {"resume_ok", "resume_fail"}
    /\ handlers' = handlers (-) One(h)
    /\ IF h.pc = "resume_ok"
       THEN Spawn(h.kind, h.c, last.stopped)
       ELSE /\ last' = Step(h.kind, h.c, "500")
            /\ UNCHANGED <<monitoring_tasks, zombies>>
    /\ UNCHANGED <<client_credentials, last_balances, relay, phase, push>>

\* the guard on monitoring_tasks is missing: a KeyError for an unknown client
StopGuardMissing(mt, c) == TRUE

\* `if client_id in monitoring_tasks:`
StopGuard(mt, c) == c \in DOMAIN mt

\* last_balances is left behind
StopBalancesKept(lb, c) == lb

\* `if client_id in last_balances: del last_balances[client_id]`
StopBalances(lb, c) == IF c \in DOMAIN lb THEN Del(lb, c) ELSE lb

\* the body of stop_monitoring on the registry and the tasks: the state it
\* leaves and its result ("500": the except clause was entered)
stop_monitoring(c, mt, cc, lb, zb) ==
    IF StopGuard(mt, c) /\ c \notin DOMAIN mt
    THEN [mt |-> mt, cc |-> cc, lb |-> lb, zb |-> zb, result |-> "500"]
    ELSE [mt |-> IF StopGuard(mt, c) THEN Del(mt, c) ELSE mt,
          cc |-> IF c \in DOMAIN cc THEN Del(cc, c) ELSE cc,
          lb |-> StopBalances(lb, c),
          zb |-> IF StopGuard(mt, c) THEN Orphan(zb, Cancel(mt[c])) ELSE zb,
          result |-> "stopped"]

\* stop_monitoring also throws the relay socket away
StopMonitoringResetsRelay(c) ==
    /\ phase = "serving"
    /\ LET r == stop_monitoring(c, monitoring_tasks, client_credentials,
                                last_balances, zombies)
       IN /\ BagCardinality(r.zb) <= MaxZombies
          /\ monitoring_tasks' = r.mt
          /\ client_credentials' = r.cc
          /\ last_balances' = r.lb
          /\ zombies' = r.zb
          /\ last' = [Step("stop", c, r.result) EXCEPT
                          !.prev = IF c \in DOMAIN @ THEN Del(@, c) ELSE @]
    /\ java_websocket' = "none"
    /\ UNCHANGED <<java_connection_task, connTasks, handlers, phase, push>>

\* POST /stop-monitoring/{client_id}
StopMonitoring(c) ==
    /\ phase = "serving"
    /\ LET r == stop_monitoring(c, monitoring_tasks, client_credentials,
                                last_balances, zombies)
       IN /\ BagCardinality(r.zb) <= MaxZombies
          /\ monitoring_tasks' = r.mt
          /\ client_credentials' = r.cc
          /\ last_balances' = r.lb
          /\ zombies' = r.zb
          /\ last' = [Step("stop", c, r.result) EXCEPT
                          !.after = IF last.op = "stop" /\ last.c = c
                                    THEN "stop" ELSE "",
                          !.stopped = IF r.result = "stopped"
                                      THEN @ \cup {c} ELSE @,
                          !.prev = IF c \in DOMAIN @ THEN Del(@, c) ELSE @]
    /\ UNCHANGED <<relay, handlers, phase, push>>

\* POST /start-all-monitoring, one user of the list: lines 838-846 run without
\* an await; the awaits of the handler lie between two users
StartAllUser(c, cred) ==
    /\ phase = "serving"
    /\ client_credentials' = Put(client_credentials, c, cred)
    /\ Spawn("start_all", c, last.stopped \ {c})
    /\ UNCHANGED <<last_balances, relay, handlers, phase, push>>

\* startup_monitoring_recovery, one user of the list; the users are taken one
\* after the other, before the server accepts requests
RecoverUser(c, cred) ==
    /\ phase = "startup"
    /\ handlers = EmptyBag
    /\ StoreEnsureSpawn("recover", c, cred)
    /\ UNCHANGED <<phase, push>>

\* startup_event returns: the server starts to serve requests
StartupDone ==
    /\ phase = "startup"
    /\ handlers = EmptyBag
    /\ phase' = "serving"
    /\ last' = Step("serving", "", "")
    /\ UNCHANGED <<registry, relay, zombies, handlers, push>>

\* one close_all_positions call as the upstream lets it run: up is FALSE when
\* AsyncClient.connect, list_positions or list_accounts raises; placed holds,
\* per position, whether place_order returned (TRUE) or raised (FALSE)
CloseRuns ==
    {[up |-> FALSE, placed |-> <<>>]}
        \cup {[up |-> TRUE, placed |-> p] :
                 p \in {<<>>, <<TRUE>>, <<FALSE>>, <<TRUE, FALSE>>}}

\* closed_count and failed_count after the loop over the positions
ClosedCount(run) == Cardinality({i \in DOMAIN run.placed : run.placed[i]})
FailedCount(run) == Cardinality({i \in DOMAIN run.placed : ~run.placed[i]})

\* result["message"]: f"Closed {closed_count} positions, {failed_count} failed"
CloseResult(closed, failed) ==
    "Closed " \o ToString(closed) \o " positions, " \o ToString(failed) \o " failed"

\* `if java_websocket and not java_websocket.close_code:
\*      await send_to_java_websocket({...})`
\* no function send_to_java_websocket is defined: the call raises NameError
NotifyRelayRaises == JavaConnected

\* POST /close-all-positions/{client_id}. The awaits of the handler (upstream
\* connect, list and place_order calls) touch no state of the service; the
\* step is the last stretch of the call, from the return of client.close() to
\* the response: HTTP 500 when anything raised outside the per-position try,
\* the result otherwise.
CloseAllPositions(c, run) ==
    /\ phase = "serving"
    /\ last' = Step("close_all", c,
                    IF run.up /\ ~NotifyRelayRaises
                    THEN CloseResult(ClosedCount(run), FailedCount(run))
                    ELSE "500")
    /\ UNCHANGED <<registry, relay, zombies, handlers, phase, push>>

----------------------------------------------------------------------------
(* The complete system *)

Next ==
    \/ \E c \in Clients, k \in KeyLens, s \in SecretLens : StartMonitoring(c, k, s)
    \/ \E c \in Clients : StopMonitoring(c)
    \/ \E c \in Clients, cred \in UserServiceCreds : StartAllUser(c, cred)
    \/ \E c \in Clients, cred \in UserServiceCreds : RecoverUser(c, cred)
    \/ StartupDone
    \/ \E h \in DOMAIN handlers : HandlerResumes(h)
    \/ \E t \in ConnIds : ConnectSucceeds(t)
    \/ \E t \in ConnIds : ConnectFails(t)
    \/ \E t \in ConnIds : ConnectWakes(t)
    \/ RelayDrops
    \/ \E r \in TaskRefs : MonitorCancelledUnstarted(r)
    \/ \E r \in TaskRefs : MonitorCancelled(r)
    \/ \E r \in TaskRefs : MonitorStarts(r)
    \/ \E r \in TaskRefs, ok \in BOOLEAN : MonitorConnects(r, ok)
    \/ \E r \in TaskRefs, ok \in BOOLEAN : MonitorListsAccounts(r, ok)
    \/ \E r \in TaskRefs, m \in Messages : MonitorMessage(r, m)
    \/ \E r \in TaskRefs : MonitorSendReturns(r)
    \/ \E r \in TaskRefs : MonitorStreamFails(r)
    \/ \E r \in TaskRefs : MonitorStreamEnds(r)

Spec == Init /\ [][Next]_vars

\* The service with two clients, in an environment in which the relay endpoint
\* accepts every connection and keeps it, the User Service lists no users at
\* startup, the callers send well-formed credentials, and the upstream stream
\* carries account summaries only.
TwoClients == {"c1", "c2"}
FleetKeyLens == {24}
FleetSecretLens == {20}
FleetMessages == {m \in Messages : m.kind = "summary" /\ m.nlv \in {0, 2500}}

FleetNext ==
    \/ StartupDone
    \/ \E c \in TwoClients, k \in FleetKeyLens, s \in FleetSecretLens :
           StartMonitoring(c, k, s)
    \/ \E c \in TwoClients : StopMonitoring(c)
    \/ \E h \in DOMAIN handlers : HandlerResumes(h)
    \/ \E t \in ConnIds : ConnectSucceeds(t)
    \/ \E r \in TaskRefs : MonitorCancelledUnstarted(r)
    \/ \E r \in TaskRefs : MonitorCancelled(r)
    \/ \E r \in TaskRefs : MonitorStarts(r)
    \/ \E r \in TaskRefs, ok \in BOOLEAN : MonitorConnects(r, ok)
    \/ \E r \in TaskRefs, ok \in BOOLEAN : MonitorListsAccounts(r, ok)
    \/ \E r \in TaskRefs, m \in FleetMessages : MonitorMessage(r, m)
    \/ \E r \in TaskRefs : MonitorSendReturns(r)
    \/ \E r \in TaskRefs : MonitorStreamFails(r)

FleetSpec == Init /\ [][FleetNext]_vars

\* The relay and the close-all-positions endpoint: one client starts
\* monitoring (which connects the relay) and closes its positions.
CloseNext ==
    \/ StartupDone
    \/ \E c \in Clients : StartMonitoring(c, KeyLen, MinSecretLen)
    \/ \E h \in DOMAIN handlers : HandlerResumes(h)
    \/ \E t \in ConnIds : ConnectSucceeds(t)
    \/ \E t \in ConnIds : ConnectFails(t)
    \/ \E t \in ConnIds : ConnectWakes(t)
    \/ RelayDrops
    \/ \E c \in Clients, run \in CloseRuns : CloseAllPositions(c, run)

CloseSpec == Init /\ [][CloseNext]_vars

----------------------------------------------------------------------------
(* Properties *)

ZombiesOf(c) == {z \in BagToSet(zombies) : z.client = c}

\* the tasks of c that are neither finished nor cancel-requested
LiveCount(c) ==
    (IF c \in DOMAIN monitoring_tasks
        /\ ~Done(monitoring_tasks[c]) /\ ~monitoring_tasks[c].cancel
     THEN 1 ELSE 0)
    + BagCardinality([z \in {y \in ZombiesOf(c) : ~y.cancel} |-> zombies[z]])

\* C1: in every reachable state each client has at most one monitor task that
\* is neither finished nor cancel-requested: whichever start path replaces a
\* running task has requested its cancellation first.
C1_SingleActiveSession == \A c \in Clients : LiveCount(c) <= 1

\* a start has replaced a running task: the old one is cancel-requested and
\* still has its last step to take, the new one is registered
C1_Witness ==
    \E c \in Clients :
        /\ last = Step("start", c, "started")
        /\ ~Done(monitoring_tasks[c])
        /\ \E z \in ZombiesOf(c) : z.cancel /\ z.pc = "interrupted"

\* C2: restarting a live session yields a working session: when the old task,
\* cancelled by a successful start_monitoring, runs its cleanup, the task that
\* start registered, which has not yet taken its first step, still finds the
\* credentials that start stored.
C2_RestartKeepsCredentials ==
    \A c \in Clients :
        (/\ last.op = "mon_cancelled" /\ last.c = c /\ last.after = "start"
         /\ c \in DOMAIN monitoring_tasks
         /\ monitoring_tasks[c].pc = "created"
         /\ ~monitoring_tasks[c].cancel)
            => c \in DOMAIN client_credentials

AwaitingHandlers == {h \in DOMAIN handlers : h.pc = "await_conn"}

\* the handlers of the bag hs that are at pc, and those awaiting connect task t
AtPc(hs, pc) == BagCardinality([h \in {x \in DOMAIN hs : x.pc = pc} |-> hs[h]])
Awaiting(hs, t) ==
    BagCardinality([h \in {x \in DOMAIN hs : x.pc = "await_conn" /\ x.await = t}
                      |-> hs[h]])

\* C3: ensure_java_websocket_connection is single-flight: at most one connect
\* cycle is in flight, every caller suspended in the call awaits exactly that
\* cycle, which is the one java_connection_task names, and when the cycle ends
\* all of them resume with its one outcome.
C3_SingleFlight ==
    /\ [](/\ Cardinality(ConnInFlight) <= 1
          /\ \A h \in AwaitingHandlers :
                 h.await = java_connection_task /\ h.await \in ConnInFlight)
    /\ [][\A t \in ConnInFlight :
            t \notin ConnInFlight' =>
                LET outcome == IF java_websocket' = "open" /\ java_websocket # "open"
                               THEN "resume_ok" ELSE "resume_fail"
                    other == IF outcome = "resume_ok" THEN "resume_fail" ELSE "resume_ok"
                IN /\ Awaiting(handlers', t) = 0
                   /\ AtPc(handlers', outcome)
                          = AtPc(handlers, outcome) + Awaiting(handlers, t)
                   /\ AtPc(handlers', other) = AtPc(handlers, other)]_vars

\* two callers are suspended on the one cycle in flight
C3_Witness ==
    /\ BagCardinality([h \in AwaitingHandlers |-> handlers[h]]) >= 2
    /\ Cardinality(ConnInFlight) = 1

\* the step is the last step of a cancel-requested task of c
CancelledTaskSteps(c) ==
    \E z \in ZombiesOf(c) :
        z.cancel /\ CopiesIn(z, zombies') < CopiesIn(z, zombies)

\* C4: stop_monitoring(c) returns with c in none of monitoring_tasks,
\* client_credentials and last_balances and with every running task of c
\* cancel-requested, and the last step of a cancelled task creates no entry
\* in any of the three.
C4_StopTearsDown ==
    [][\A c \in Clients :
          /\ StopMonitoring(c) =>
                /\ c \notin DOMAIN monitoring_tasks'
                /\ c \notin DOMAIN client_credentials'
                /\ c \notin DOMAIN last_balances'
                /\ \A z \in BagToSet(zombies') : z.client = c => z.cancel
          /\ CancelledTaskSteps(c) =>
                /\ DOMAIN monitoring_tasks' \subseteq DOMAIN monitoring_tasks
                /\ DOMAIN client_credentials' \subseteq DOMAIN client_credentials
                /\ DOMAIN last_balances' \subseteq DOMAIN last_balances]_vars

\* stop_monitoring has just torn down a session with a running task, stored
\* credentials and a baseline; the cancelled task has yet to take its last step
C4_Witness ==
    \E c \in Clients :
        /\ last.op = "stop" /\ last.c = c /\ last.after = ""
        /\ \E z \in ZombiesOf(c) : z.cancel /\ z.pc = "interrupted"
        /\ c \notin DOMAIN last_balances

\* C5: stop_monitoring is idempotent: from every reachable state a second call
\* in a row leaves the state the first call left and both report "stopped",
\* and a call for a client with no session changes nothing.
C5_StopIdempotent ==
    \A c \in Clients :
        LET s1 == stop_monitoring(c, monitoring_tasks, client_credentials,
                                  last_balances, zombies)
            s2 == stop_monitoring(c, s1.mt, s1.cc, s1.lb, s1.zb)
        IN /\ s1.result = "stopped"
           /\ s2 = s1
           /\ (c \notin DOMAIN monitoring_tasks
                  /\ c \notin DOMAIN client_credentials
                  /\ c \notin DOMAIN last_balances)
                 => /\ s1.mt = monitoring_tasks /\ s1.cc = client_credentials
                    /\ s1.lb = last_balances /\ s1.zb = zombies

\* stop_monitoring has been called twice in a row for the same client
C5_Witness ==
    \E c \in Clients :
        last = [Step("stop", c, "stopped") EXCEPT !.after = "stop"]

\* C6: start_monitoring with an api_key whose length is not 24 or an
\* api_secret shorter than 20 answers 400 and changes neither the registry,
\* nor the tasks, nor the relay connection, nor the suspended calls.
C6_FormatErrorNoEffect ==
    [][/\ \A c \in Clients, k \in KeyLens, s \in SecretLens :
              ((k # 24 \/ s < 20) /\ StartMonitoring(c, k, s)) => last'.res = "400"
       /\ (last'.op = "start" /\ last'.res = "400") =>
              UNCHANGED <<registry, relay, zombies, handlers>>]_vars

\* a malformed start has been rejected while the client's session was running
C6_Witness ==
    \E c \in Clients :
        /\ last = Step("start", c, "400")
        /\ c \in DOMAIN monitoring_tasks /\ monitoring_tasks[c].pc = "streaming"
        /\ c \in DOMAIN client_credentials
        /\ c \in DOMAIN last_balances

\* C7: a start_monitoring call with well-formed credentials never ends in an
\* error because of the relay and never waits for the relay's connect cycle.
C7_StartIndependentOfRelay ==
    /\ \A c \in Clients : last # Step("start", c, "500")
    /\ \A h \in DOMAIN handlers : h.kind # "start"

\* the step drops a relay message: the relay is not connected when the event
\* is produced, or the send fails
DropsMessage(r) ==
    /\ last'.op \in {"alert_dropped", "fill_dropped", "send_failed"}
    /\ \/ MonitorSendReturns(r)
       \/ \E m \in Messages : MonitorMessage(r, m)

\* C8: when a monitor task drops a relay message (relay not connected, or the
\* send fails), the task stays alive waiting for the next stream message, and
\* the connect task state, java_connection_task and the suspended callers are
\* untouched.
C8_BestEffortRelay ==
    [][\A r \in TaskRefs :
          DropsMessage(r) =>
              /\ [reg |-> r.reg, task |-> [r.task EXCEPT !.pc = "streaming", !.cur = 0]]
                     \in TaskRefs'
              /\ UNCHANGED <<java_connection_task, connTasks, handlers,
                             client_credentials>>]_vars

\* a balance alert was dropped after a connect cycle had used up its retries
C8_Witness ==
    /\ last.op = "alert_dropped"
    /\ java_connection_task # NoTask
    /\ connTasks[java_connection_task].pc = "failed"
    /\ monitoring_tasks[last.c].pc = "streaming"

\* a send failed under the task, which goes on
C8_WitnessSendFailed ==
    /\ last.op = "send_failed"
    /\ monitoring_tasks[last.c].pc = "streaming"

Min(a, b) == IF a <= b THEN a ELSE b

\* the caps on the delay that are tried for the capped formula
DelayCaps == 1..64

\* C9 (as stated): the delay after N consecutive failures is
\* min(baseDelay * 2^N, maxDelay), for some maximum delay.
C9_BackoffAsStated ==
    \A t \in DOMAIN connTasks :
        \E maxDelay \in DelayCaps :
            \A n \in 1..Len(connTasks[t].delays) :
                connTasks[t].delays[n] = Min(retry_delay_init * Pow2(n), maxDelay)

\* C9 (amended): within one connect cycle the delay waited after N consecutive
\* failures, before attempt N+1, is baseDelay * 2^(N-1), uncapped.
C9_Backoff ==
    \A t \in DOMAIN connTasks :
        /\ \A n \in 1..Len(connTasks[t].delays) :
               connTasks[t].delays[n] = retry_delay_init * Pow2(n - 1)
        /\ connTasks[t].pc = "sleeping" =>
               Len(connTasks[t].delays) = connTasks[t].attempt + 1

\* a cycle has slept after each of its first four failures
C9_Witness ==
    \E t \in DOMAIN connTasks :
        connTasks[t].pc = "sleeping" /\ Len(connTasks[t].delays) = max_retries - 1

\* what is left of a connect cycle: attempts, and sleeps between them
Remaining(ct, t) ==
    IF t \notin DOMAIN ct \/ ct[t].pc \in ConnFinished THEN 0
    ELSE 2 * (max_retries - ct[t].attempt) - (IF ct[t].pc = "sleeping" THEN 1 ELSE 0)

\* C10: a connect cycle makes at most max_retries attempts, sleeps only when
\* an attempt is left, ends at its first success with the socket open, gives
\* up right after the last failed attempt, and every step of it uses up one
\* of its bounded attempts or sleeps, so it cannot go on forever.
C10_CycleBounded ==
    /\ [](\A t \in DOMAIN connTasks :
            /\ connTasks[t].attempt + 1 <= max_retries
            /\ connTasks[t].pc = "sleeping" => connTasks[t].attempt + 1 < max_retries
            /\ Len(connTasks[t].delays) \in
                   {connTasks[t].attempt, connTasks[t].attempt + 1}
            /\ connTasks[t].pc = "failed" =>
                   /\ connTasks[t].attempt + 1 = max_retries
                   /\ Len(connTasks[t].delays) = max_retries - 1
            /\ connTasks[t].pc = "ok" => Len(connTasks[t].delays) = connTasks[t].attempt)
    /\ [][\A t \in ConnIds :
            /\ (t \in ConnInFlight /\ connTasks' # connTasks /\ t \in DOMAIN connTasks'
                   /\ connTasks'[t] # connTasks[t])
                  => Remaining(connTasks', t) < Remaining(connTasks, t)
            /\ (t \in ConnInFlight /\ t \in DOMAIN connTasks' /\ connTasks'[t].pc = "ok")
                  => java_websocket' = "open"]_vars

\* a cycle has given up after its last attempt
C10_Witness ==
    \E t \in DOMAIN connTasks :
        connTasks[t].pc = "failed" /\ connTasks[t].attempt = max_retries - 1

\* the connect cycle java_connection_task names has used up its attempts
CycleExhausted ==
    IF java_connection_task = NoTask THEN FALSE
    ELSE connTasks[java_connection_task].pc = "failed"

\* the step is an attempted send of a monitor task that finds the relay not
\* connected
AttemptsSendUnconnected ==
    /\ last'.op \in {"alert_dropped", "fill_dropped"}
    /\ \E r \in TaskRefs, m \in Messages : MonitorMessage(r, m)

\* C11: after a connect cycle has used up its attempts, the next attempted
\* send to the relay starts a new cycle, at attempt 0 with the base delay.
C11_SendRestartsCycle ==
    [][(CycleExhausted /\ AttemptsSendUnconnected) =>
          /\ java_connection_task' \in ConnInFlight'
          /\ connTasks'[java_connection_task'] = NewConnTask]_vars

----------------------------------------------------------------------------
(* Progress: what the event loop and the network guarantee *)

\* The event loop runs every callback that is ready: a cancelled task gets its
\* CancelledError, a created task its first step, a sleep ends, a caller whose
\* awaited task has finished resumes. A connection attempt returns or raises.
\* The relay endpoint is reachable again and again: a connect cycle that keeps
\* attempting succeeds. Requests, upstream messages and failures are up to
\* the environment and get no fairness.
LiveSpec ==
    /\ Init /\ [][Next]_vars
    /\ WF_vars(\E r \in TaskRefs : MonitorCancelledUnstarted(r))
    /\ WF_vars(\E r \in TaskRefs : MonitorCancelled(r))
    /\ WF_vars(\E r \in TaskRefs : MonitorStarts(r))
    /\ WF_vars(\E h \in DOMAIN handlers : HandlerResumes(h))
    /\ WF_vars(\E t \in ConnIds : ConnectWakes(t))
    /\ WF_vars(\E t \in ConnIds : ConnectSucceeds(t) \/ ConnectFails(t))
    /\ SF_vars(\E t \in ConnIds : ConnectSucceeds(t))

\* a client is being monitored
Monitored == \E c \in DOMAIN monitoring_tasks : ~Done(monitoring_tasks[c])

\* C12: when the relay connection has dropped while clients are monitored, it
\* is connected again later without a client-facing call (start, stop,
\* start-all) having to be made.
C12_RelayReconnectsOnItsOwn ==
    (java_websocket = "closed" /\ Monitored) ~> (JavaConnected \/ ~Monitored)

\* the states of the outbound connection
Connected == JavaConnected
Connecting == ConnInFlight # {}
Disconnected == ~JavaConnected /\ ConnInFlight = {}

\* C13: the outbound connection is in exactly one of Disconnected, Connecting
\* and Connected; it becomes Connected only from Connecting, and it leaves
\* Connected only to Disconnected.
C13_ConnectionStateMachine ==
    /\ [](/\ ~(Connected /\ Connecting)
          /\ ~(Connected /\ Disconnected)
          /\ ~(Connecting /\ Disconnected)
          /\ Connected \/ Connecting \/ Disconnected)
    /\ [][((~Connected /\ Connected') => Connecting)
           /\ ((Connected /\ ~Connected') => Disconnected')]_vars

\* the connection has been connected, has dropped, and is connecting again
C13_Witness == Connecting /\ java_websocket = "closed"

\* C14: the relay connection does not depend on the life of the sessions: the
\* socket changes only when a connection attempt succeeds or the socket drops,
\* and a connect cycle in flight changes only by its own steps; so no
\* stop_monitoring, no end of a monitor task and no (re)start of a session
\* closes or resets the socket or cancels a cycle.
C14_RelayIndependentOfSessions ==
    [][/\ java_websocket' # java_websocket =>
              (RelayDrops \/ \E t \in ConnIds : ConnectSucceeds(t))
       /\ \A t \in ConnInFlight :
              \/ t \in DOMAIN connTasks' /\ connTasks'[t] = connTasks[t]
              \/ ConnectSucceeds(t) \/ ConnectFails(t) \/ ConnectWakes(t)]_vars

\* c's session has been stopped while the socket is open, and its cancelled
\* task is about to end
C14_Witness ==
    \E c \in Clients :
        /\ last.op = "stop" /\ last.c = c
        /\ JavaConnected
        /\ \E z \in ZombiesOf(c) : z.cancel /\ z.pc = "interrupted"

\* the step is a failed upstream call of the task of r: AsyncClient.connect
\* raises, list_accounts raises or returns nothing, or client.stream() raises
UpstreamCallFails(r) ==
    \/ MonitorConnects(r, FALSE)
    \/ MonitorListsAccounts(r, FALSE)
    \/ MonitorStreamFails(r)

\* C15: a failed upstream call does not end the monitor task: after the step
\* the task is still running.
C15_UpstreamFailureRetried ==
    [][\A r \in TaskRefs :
          (r.reg /\ UpstreamCallFails(r)) =>
              ~Done(monitoring_tasks'[r.task.client])]_vars

\* a stream message whose processing raises before it has written anything
BadMessage == [kind |-> "bad_summary", nlv |-> 0]

\* C16: a stream message whose processing fails is skipped: the task stays at
\* the stream and nothing of the program state changes, so every later
\* message is processed as if the bad one had not arrived.
C16_BadMessageSkipped ==
    [][\A r \in TaskRefs :
          MonitorMessage(r, BadMessage) =>
              /\ [r EXCEPT !.task.pc = "streaming"] \in TaskRefs'
              /\ UNCHANGED <<monitoring_tasks, zombies, client_credentials,
                             last_balances, relay, handlers, phase>>]_vars

\* a bad message has been skipped by a task that has a baseline, and the task
\* waits for the next message
C16_Witness ==
    \E c \in Clients :
        /\ last.op = "message_error" /\ last.c = c
        /\ c \in DOMAIN monitoring_tasks /\ monitoring_tasks[c].pc = "streaming"
        /\ c \in DOMAIN last_balances

\* the step is a fatal upstream error of the registered task of c: the
\* upstream connection fails, or the accounts lookup fails or finds no account
FatalUpstreamError(c) ==
    \E r \in TaskRefs :
        /\ r.reg /\ r.task.client = c
        /\ MonitorConnects(r, FALSE) \/ MonitorListsAccounts(r, FALSE)

\* C17: a fatal upstream error destroys the session: afterwards the client has
\* no credentials, no entry in monitoring_tasks and no last balance.
C17_FatalErrorDestroysSession ==
    [][\A c \in Clients :
          FatalUpstreamError(c) =>
              /\ c \notin DOMAIN client_credentials'
              /\ c \notin DOMAIN monitoring_tasks'
              /\ c \notin DOMAIN last_balances']_vars

\* the tasks of c that have not finished
RunningOf(c) == {r \in TaskRefs : r.task.client = c /\ ~Done(r.task)}

\* C18: once stop_monitoring(c) has returned and while no start is called for
\* c, no task of c is sending or can come to send a relay message (a task of
\* c that is not cancel-requested has yet to take its first step and will find
\* no credentials), and the tasks of c end.
C18_CancellationEffective ==
    /\ [](\A c \in last.stopped :
            /\ c \notin DOMAIN client_credentials
            /\ \A r \in RunningOf(c) :
                   /\ r.task.pc \notin {"send_alert", "send_fill"}
                   /\ ~r.task.cancel => r.task.pc = "created")
    /\ \A c \in Clients :
           (c \in last.stopped) ~> (c \notin last.stopped \/ RunningOf(c) = {})

\* stop_monitoring(c) has returned, no start has been called since, and the
\* cancelled task of c has just ended
C18_Witness ==
    \E c \in Clients :
        /\ c \in last.stopped
        /\ last.op = "mon_cancelled" /\ last.c = c
        /\ RunningOf(c) = {}

\* how many tasks of c are at one of the places pcs and not cancel-requested
CountAt(mt, zb, c, pcs) ==
    (IF c \in DOMAIN mt /\ mt[c].pc \in pcs /\ ~mt[c].cancel THEN 1 ELSE 0)
    + BagCardinality([z \in {y \in BagToSet(zb) :
                                y.client = c /\ y.pc \in pcs /\ ~y.cancel}
                        |-> zb[z]])

SendPlaces == {"send_alert", "send_fill"}
StreamPlaces == {"streaming", "send_alert", "send_fill"}

\* C19: the relay messages of one client go out one at a time in the order
\* of arrival: at most one task of the client reads its stream, at most one of
\* its sends is outstanding, a task takes its next stream message only when no
\* send of the client is outstanding, and a send that returns is over; a
\* restart leaves no second sender behind.
C19_OrderPreserved ==
    /\ [](\A c \in Clients :
            /\ CountAt(monitoring_tasks, zombies, c, StreamPlaces) <= 1
            /\ CountAt(monitoring_tasks, zombies, c, SendPlaces) <= 1)
    /\ [][\A r \in TaskRefs :
            /\ (\E m \in Messages : MonitorMessage(r, m)) =>
                   CountAt(monitoring_tasks, zombies, r.task.client, SendPlaces) = 0
            /\ MonitorSendReturns(r) =>
                   CountAt(monitoring_tasks', zombies', r.task.client, SendPlaces) = 0]_vars

\* the task of a restarted session is sending while the cancelled task of the
\* session it replaced has not yet ended
C19_Witness ==
    \E c \in Clients :
        /\ c \in DOMAIN monitoring_tasks
        /\ monitoring_tasks[c].pc \in SendPlaces
        /\ \E z \in ZombiesOf(c) : z.cancel /\ z.pc = "interrupted"

\* the places of a task before it has read its first stream message
BeforeFirstMessage == {"created", "connecting", "listing"}

\* C20: every session starts without a baseline: while the task of a new
\* session has not yet read a stream message, last_balances holds no balance
\* of the client, whatever way the session before it ended.
C20_SessionStartsWithoutBaseline ==
    \A c \in DOMAIN monitoring_tasks :
        monitoring_tasks[c].pc \in BeforeFirstMessage => c \notin DOMAIN last_balances


\* the step puts a task of c into the send at pc
StartsSend(c, pc) ==
    CountAt(monitoring_tasks', zombies', c, {pc})
        > CountAt(monitoring_tasks, zombies, c, {pc})

\* C24: when a monitor takes an account-summary message from the stream, it
\* starts to send a balance alert if and only if the relay is connected, the
\* client has a stored baseline, and the balance differs by more than 1000
\* from the balance of the client's immediately preceding summary message; a
\* fill message taken while the relay is connected starts exactly one send.
C24_RiskAlertRule ==
    [][\A r \in TaskRefs, m \in Messages :
          MonitorMessage(r, m) =>
              LET c == r.task.client
                  current == CurrentBalance(m.nlv)
              IN /\ (m.kind = "summary") =>
                        (StartsSend(c, "send_alert")
                            <=> IF JavaConnected /\ c \in DOMAIN last_balances
                                THEN Abs(current - last.prev[c]) > 1000
                                ELSE FALSE)
                 /\ (m.kind = "fill" /\ JavaConnected) =>
                        /\ StartsSend(c, "send_fill")
                        /\ CountAt(monitoring_tasks', zombies', c, {"send_fill"}) = 1
                 /\ (m.kind = "fill" /\ ~JavaConnected) => ~StartsSend(c, "send_fill")]_vars

\* last_balances holds the balance b for client c
BaselineIs(lb, c, b) == IF c \in DOMAIN lb THEN lb[c] = b ELSE FALSE

\* C25: when a monitor task has finished handling an account-summary message
\* (it is back at the stream, either at once or after the alert send has
\* returned or raised), last_balances of its client is that message's balance.
C25_BaselineAdvances ==
    [][\A r \in TaskRefs :
          /\ \A m \in Messages :
                 (/\ m.kind = "summary"
                  /\ MonitorMessage(r, m)
                  /\ ~StartsSend(r.task.client, "send_alert"))
                     => BaselineIs(last_balances', r.task.client,
                                   CurrentBalance(m.nlv))
          /\ (r.task.pc = "send_alert" /\ MonitorSendReturns(r))
                 => BaselineIs(last_balances', r.task.client, r.task.cur)]_vars

\* the step changes (creates, overwrites or deletes) the baseline of c
BaselineChanges(c) ==
    IF c \in DOMAIN last_balances /\ c \in DOMAIN last_balances'
    THEN last_balances'[c] # last_balances[c]
    ELSE (c \in DOMAIN last_balances) # (c \in DOMAIN last_balances')

\* the step is taken by the registered, not cancel-requested task of c
StepOfRegisteredTask(c) ==
    /\ c \in DOMAIN monitoring_tasks
    /\ ~monitoring_tasks[c].cancel
    /\ LET r == [reg |-> TRUE, task |-> monitoring_tasks[c]]
       IN IF r.task.pc = "send_alert"
          THEN MonitorSendReturns(r)
          ELSE \E m \in Messages : m.kind = "summary" /\ MonitorMessage(r, m)

\* C26: the accesses to last_balances[c] are serialized: at most one task of c
\* is between its read (message arrival) and its write-back (after the send);
\* no task of c takes a summary message (reads) while another is in between;
\* while a task is in between, the baseline is changed only by that task's
\* write-back or deleted by a stop of c, which cancels the task (no lost
\* update); and only the registered task of c, never a replaced or stopped
\* one, writes the baseline.
C26_BalanceAccessSerialized ==
    [][\A c \in Clients :
          /\ CountAt(monitoring_tasks, zombies, c, {"send_alert"}) <= 1
          /\ \A r \in TaskRefs, m \in Messages :
                 (r.task.client = c /\ m.kind = "summary" /\ MonitorMessage(r, m))
                     => CountAt(monitoring_tasks, zombies, c, {"send_alert"}) = 0
          /\ BaselineChanges(c) =>
                 IF c \in DOMAIN last_balances'
                 THEN StepOfRegisteredTask(c)
                 ELSE /\ StopMonitoring(c)
                      /\ CountAt(monitoring_tasks', zombies', c, {"send_alert"}) = 0]_vars

\* the task that replaced a running task of c is between its read and its
\* write-back while the replaced task has not yet taken its last step
C26_Witness ==
    \E c \in Clients :
        /\ c \in DOMAIN monitoring_tasks
        /\ monitoring_tasks[c].pc = "send_alert"
        /\ ~monitoring_tasks[c].cancel
        /\ \E z \in BagToSet(zombies) : z.client = c /\ z.cancel

\* C27: whenever no start call is in progress, every client with an entry in
\* client_credentials has a registered monitor task that is not finished.
C27_NoOrphanedCredentials ==
    handlers = EmptyBag =>
        \A c \in DOMAIN client_credentials :
            IF c \in DOMAIN monitoring_tasks
            THEN ~Done(monitoring_tasks[c])
            ELSE FALSE

\* C28: every entry of client_credentials has an api_key of length exactly 24
\* and an api_secret of length at least 20, whichever path stored it.
C28_OnlyValidatedCredentials ==
    \A c \in DOMAIN client_credentials :
        /\ client_credentials[c].api_key = 24
        /\ client_credentials[c].api_secret >= 20

\* what the service holds for client c: its registered task, its dropped tasks
\* that still run, its stored credentials and its baseline
SessionOf(mt, zb, cc, lb, c) ==
    [task |-> IF c \in DOMAIN mt THEN <<mt[c]>> ELSE <<>>,
     dropped |-> [z \in {y \in BagToSet(zb) : y.client = c} |-> zb[z]],
     credentials |-> IF c \in DOMAIN cc THEN <<cc[c]>> ELSE <<>>,
     balance |-> IF c \in DOMAIN lb THEN <<lb[c]>> ELSE <<>>]

\* the step is a step of a monitor task of client c
TaskStepOf(c) ==
    \E r \in TaskRefs :
        /\ r.task.client = c
        /\ \/ MonitorCancelledUnstarted(r)
           \/ MonitorCancelled(r)
           \/ MonitorStarts(r)
           \/ \E ok \in BOOLEAN : MonitorConnects(r, ok)
           \/ \E ok \in BOOLEAN : MonitorListsAccounts(r, ok)
           \/ \E m \in FleetMessages : MonitorMessage(r, m)
           \/ MonitorSendReturns(r)
           \/ MonitorStreamFails(r)

\* the step is a step of a start_monitoring or stop_monitoring call for c
CallStepOf(c) ==
    \/ \E k \in FleetKeyLens, s \in FleetSecretLens : StartMonitoring(c, k, s)
    \/ \E h \in DOMAIN handlers : h.c = c /\ HandlerResumes(h)
    \/ StopMonitoring(c)

\* C29: a step of start_monitoring or stop_monitoring for client a, and a step
\* of a monitor task of a (its failure and its cancellation included), leaves
\* the task, the credentials and the baseline of every other client b as they
\* were; in particular it does not end a task of b.
C29_ClientIsolation ==
    [][\A a \in TwoClients, b \in TwoClients :
          (a # b /\ (CallStepOf(a) \/ TaskStepOf(a))) =>
              SessionOf(monitoring_tasks', zombies', client_credentials',
                        last_balances', b)
                  = SessionOf(monitoring_tasks, zombies, client_credentials,
                              last_balances, b)]_vars

\* the monitor of one client has just failed while the other client's monitor
\* reads its stream, with credentials and a baseline stored for it
C29_Witness ==
    \E a \in TwoClients, b \in TwoClients :
        /\ a # b
        /\ a \in DOMAIN monitoring_tasks /\ monitoring_tasks[a].pc = "failed"
        /\ a \notin DOMAIN client_credentials
        /\ b \in DOMAIN monitoring_tasks /\ monitoring_tasks[b].pc = "streaming"
        /\ b \in DOMAIN client_credentials
        /\ b \in DOMAIN last_balances

\* C30: once the close orders have been placed, close_all_positions returns
\* its result (the closed and failed counts), whether or not the relay is
\* connected.
C30_CloseAllReportsOutcome ==
    [][\A c \in Clients, run \in CloseRuns :
          (run.up /\ CloseAllPositions(c, run)) =>
              last'.res = CloseResult(ClosedCount(run), FailedCount(run))]_vars

----------------------------------------------------------------------------
(* Client push channel and its three monitors. The endpoint that serves the *)
(* push sessions is not part of main.py (only its client scripts are in the *)
(* source tree); the definitions of this section follow sections 4.1, 4.2,  *)
(* 4.3, 6 and 7 of the specification. Amounts are in cents.                 *)

\* `|current.totalBalance - previous.totalBalance| > 0.01` (one cent)
BalanceEpsilon == 1
\* "changed by more than $1.00"
PnlEpsilon == 100

\* position-P&L maps: symbol -> unrealized P&L
PnlMaps ==
    {EmptyDict, [x \in PushSymbols |-> MinOf(PnlValues)]}
        \cup {[x \in {"BTC"} |-> v] : v \in PnlValues}

\* a change of exactly one cent is already material
shouldEmitBalanceAtLeast(previous, current) ==
    IF previous = <<>> THEN TRUE
    ELSE Abs(current - previous[1]) >= BalanceEpsilon

\* shouldEmitBalance(previous, current): previous is <<>> when it is absent
shouldEmitBalance(previous, current) ==
    IF previous = <<>> THEN TRUE
    ELSE Abs(current - previous[1]) > BalanceEpsilon

\* a change of the symbol set alone is not reported
shouldEmitPnlSameKeys(previousMap, currentMap) ==
    \E sym \in DOMAIN currentMap \cap DOMAIN previousMap :
        Abs(currentMap[sym] - previousMap[sym]) > PnlEpsilon

\* shouldEmitPnl(previousMap, currentMap)
shouldEmitPnl(previousMap, currentMap) ==
    IF DOMAIN previousMap # DOMAIN currentMap THEN TRUE
    ELSE \E sym \in DOMAIN currentMap :
             Abs(currentMap[sym] - previousMap[sym]) > PnlEpsilon

\* RelayMessage variants of the push channel
ConnectionMsg(acct) ==
    [type |-> "Connection", accountId |-> acct, totalBalance |-> 0,
     positions |-> EmptyDict, source |-> ""]
ErrorMsg ==
    [type |-> "Error", accountId |-> "", totalBalance |-> 0,
     positions |-> EmptyDict, source |-> ""]
BalanceUpdate(acct, b, source) ==
    [type |-> "BalanceUpdate", accountId |-> acct, totalBalance |-> b,
     positions |-> EmptyDict, source |-> source]
PnlUpdate(acct, b, m) ==
    [type |-> "PnlUpdate", accountId |-> acct, totalBalance |-> b,
     positions |-> m, source |-> ""]

\* the session sends nothing when its account is resolved
SessionStartSilent(ok, acct) == IF ok THEN <<>> ELSE <<ErrorMsg>>

\* session start: one Connection message with the resolved accountId, or, when
\* the first accounts lookup fails, an Error message
SessionStart(ok, acct) == IF ok THEN <<ConnectionMsg(acct)>> ELSE <<ErrorMsg>>

service == <<monitoring_tasks, client_credentials, last_balances, java_websocket,
             java_connection_task, zombies, connTasks, handlers, phase, last>>

\* a client establishes a push session (the session before it has ended)
PushConnects ==
    /\ push.pc \in {"idle", "closed"}
    /\ push' = [NoPushSession EXCEPT !.pc = "resolving"]
    /\ UNCHANGED service

\* the first accounts lookup returns or fails; on failure the session is closed
PushResolves(ok, acct) ==
    /\ push.pc = "resolving"
    /\ push' = [push EXCEPT !.pc = IF ok THEN "open" ELSE "closed",
                            !.accountId = IF ok THEN acct ELSE "",
                            !.out = SessionStart(ok, acct)]
    /\ UNCHANGED service

PushRunning == push.pc = "open" /\ push.polls < MaxPolls

\* the messages msgs are written to the channel in order; seen records the
\* snapshot the monitor has just handled and how many messages it emitted
Emit(p, msgs, monitor, b, m) ==
    [p EXCEPT !.out = @ \o msgs,
              !.polls = @ + 1,
              !.seen = [monitor |-> monitor, totalBalance |-> b, positions |-> m,
                        emitted |-> Len(msgs)]]

\* Balance Fallback Monitor: one poll of the account summary
BalanceFallbackPoll(b) ==
    /\ PushRunning
    /\ push' = IF shouldEmitBalance(push.lastBalanceSnapshot, b)
               THEN [Emit(push, <<BalanceUpdate(push.accountId, b, "fallback")>>,
                          "fallback", b, EmptyDict)
                        EXCEPT !.lastBalanceSnapshot = <<b>>]
               ELSE Emit(push, <<>>, "fallback", b, EmptyDict)
    /\ UNCHANGED service

\* the account summary the Position Monitor fetches on a positive result
FreshSummaries == {MinOf(PushBalances)}

\* Position Monitor: one poll of the positions; b is the fresh account summary
\* fetched on a positive result
PositionPoll(m, b) ==
    /\ PushRunning
    /\ push' = IF shouldEmitPnl(push.lastPositionPnLBySymbol, m)
               THEN [Emit(push, <<PnlUpdate(push.accountId, b, m)>>, "position", b, m)
                        EXCEPT !.lastPositionPnLBySymbol = m]
               ELSE Emit(push, <<>>, "position", 0, m)
    /\ UNCHANGED service

\* Execution Monitor: one fill event; b and m are the fresh summary and positions
ExecutionFill(b, m) ==
    /\ PushRunning
    /\ push' = IF shouldEmitPnl(push.lastPositionPnLBySymbol, m)
               THEN [Emit(push, <<BalanceUpdate(push.accountId, b, "orderflow"),
                                  PnlUpdate(push.accountId, b, m)>>, "execution", b, m)
                        EXCEPT !.lastBalanceSnapshot = <<b>>,
                               !.lastPositionPnLBySymbol = m]
               ELSE [Emit(push, <<BalanceUpdate(push.accountId, b, "orderflow")>>,
                          "execution", b, m)
                        EXCEPT !.lastBalanceSnapshot = <<b>>]
    /\ UNCHANGED service

\* the client disconnects or monitoring is stopped: the monitors are cancelled
\* and the channel is closed
PushDisconnects ==
    /\ push.pc = "open"
    /\ push' = [push EXCEPT !.pc = "closed"]
    /\ UNCHANGED service

PushNext ==
    \/ PushConnects
    \/ \E ok \in BOOLEAN, acct \in AccountIds : PushResolves(ok, acct)
    \/ \E b \in PushBalances : BalanceFallbackPoll(b)
    \/ \E m \in PnlMaps, b \in FreshSummaries : PositionPoll(m, b)
    \/ \E b \in PushBalances, m \in PnlMaps : ExecutionFill(b, m)
    \/ PushDisconnects

PushSpec == Init /\ [][PushNext]_vars

----------------------------------------------------------------------------
(* Properties of the push channel *)

\* the places of the messages of type t in the output of the session
OfType(t) == {i \in 1..Len(push.out) : push.out[i].type = t}

\* C21 as stated: every session that has emitted a message has emitted exactly
\* one Connection message, and it is the first message of the session.
C21_ConnectionFirstInEverySession ==
    push.out # <<>> =>
        /\ push.out[1].type = "Connection"
        /\ Cardinality(OfType("Connection")) = 1

\* C21: a session whose account has been resolved has emitted exactly one
\* Connection message, it carries the resolved accountId and it precedes every
\* other message of the session; a session whose first accounts lookup failed
\* has emitted one Error message and nothing else.
C21_ConnectionFirstWhenResolved ==
    /\ push.pc = "open" => push.accountId # ""
    /\ push.accountId # "" =>
          /\ push.out # <<>>
          /\ push.out[1] = ConnectionMsg(push.accountId)
          /\ OfType("Connection") = {1}
          /\ OfType("Error") = {}
    /\ (push.accountId = "" /\ push.pc = "closed") => push.out = <<ErrorMsg>>
    /\ push.pc \in {"idle", "resolving"} => push.out = <<>>

\* a session has emitted its Connection message and then both kinds of update
C21_Witness ==
    /\ push.pc = "open"
    /\ OfType("BalanceUpdate") # {}
    /\ OfType("PnlUpdate") # {}

\* the output of the session before the monitor handled the snapshot in seen
OutBefore == SubSeq(push.out, 1, Len(push.out) - push.seen.emitted)

\* the totalBalance of the last BalanceUpdate of the messages out (<<>>: none)
LastEmittedBalance(out) ==
    LET at == {i \in 1..Len(out) : out[i].type = "BalanceUpdate"}
    IN IF at = {} THEN <<>>
       ELSE <<out[CHOOSE i \in at : \A j \in at : j <= i].totalBalance>>

\* C22: the snapshot the balance detector has just been given is emitted (as
\* one BalanceUpdate carrying its totalBalance) if it is the first snapshot of
\* the session or differs by more than one cent from the last emitted one, and
\* otherwise nothing is emitted.
C22_BalanceChangeDetection ==
    push.seen.monitor = "fallback" =>
        LET before == LastEmittedBalance(OutBefore)
            material == IF before = <<>> THEN TRUE
                        ELSE Abs(push.seen.totalBalance - before[1]) > 1
        IN IF material
           THEN /\ push.seen.emitted = 1
                /\ push.out[Len(push.out)] =
                       BalanceUpdate(push.accountId, push.seen.totalBalance, "fallback")
           ELSE push.seen.emitted = 0

\* after $100,000.00 was emitted, $100,000.01 was not (so the baseline is
\* still $100,000.00) and then $100,000.02 was
C22_Witness ==
    /\ push.seen.monitor = "fallback" /\ push.seen.emitted = 1
    /\ push.polls = 3
    /\ Cardinality(OfType("BalanceUpdate")) = 2
    /\ LastEmittedBalance(OutBefore) = <<push.seen.totalBalance - 2>>

\* the P&L map of the last PnlUpdate of the messages out (none: the empty map)
LastEmittedPnl(out) ==
    LET at == {i \in 1..Len(out) : out[i].type = "PnlUpdate"}
    IN IF at = {} THEN EmptyDict
       ELSE out[CHOOSE i \in at : \A j \in at : j <= i].positions

\* the maps differ in their symbols or in some symbol by more than 1.00
Differ(previousMap, currentMap) ==
    IF DOMAIN previousMap # DOMAIN currentMap THEN TRUE
    ELSE \E sym \in DOMAIN currentMap :
             Abs(currentMap[sym] - previousMap[sym]) > 100

\* the number of PnlUpdate messages among the last n messages of the session
PnlEmitted ==
    Cardinality({i \in OfType("PnlUpdate") : i > Len(push.out) - push.seen.emitted})

\* C23 as stated: a PnlUpdate is emitted for a position map if and only if it
\* differs from the map polled just before it.
C23_PnlChangeOfConsecutiveMaps ==
    [][(/\ push'.polls = push.polls + 1
        /\ push'.seen.monitor = "position" /\ push.seen.monitor = "position") =>
          (push'.seen.emitted = 1
              <=> Differ(push.seen.positions, push'.seen.positions))]_vars

\* C23: a PnlUpdate is emitted for a position map if and only if the map
\* differs, in its symbols or in some symbol by more than 1.00, from the map of
\* the last PnlUpdate of the session (the empty map when there is none yet).
C23_PnlChangeDetection ==
    push.seen.monitor \in {"position", "execution"} =>
        /\ PnlEmitted = (IF Differ(LastEmittedPnl(OutBefore), push.seen.positions)
                         THEN 1 ELSE 0)
        /\ PnlEmitted = 1 =>
               push.out[Len(push.out)].positions = push.seen.positions

\* three position polls {BTC: 5.00}, {BTC: 5.00}, {BTC: 6.50}: the second has
\* emitted nothing, the third has emitted the second PnlUpdate of the session
C23_Witness ==
    /\ push.seen.monitor = "position" /\ push.seen.emitted = 1
    /\ push.seen.positions = [x \in {"BTC"} |-> 650]
    /\ LastEmittedPnl(OutBefore) = [x \in {"BTC"} |-> 500]
    /\ push.polls = 3
    /\ Len(push.out) = 3
    /\ OfType("PnlUpdate") = {2, 3}


=============================================================================
